---- MODULE Spec2Model ----
(***************************************************************************)
(* State-machine model of the PDF-to-image batch converter                 *)
(* (refcode/pdf2jpg/converter.py, refcode/pdf2jpg/config.py).              *)
(*                                                                         *)
(* A run of convert_batch walks the name-sorted PDF files of the input     *)
(* folder; convert_pdf handles one document (skip check, open, encryption  *)
(* check, page loop, close, classification).  The renderer and the file    *)
(* system are the environment: what a document is (corrupt, unreadable,    *)
(* encrypted, n pages, which pages fail to render) is fixed by the input   *)
(* folder chosen in Init and does not change between runs.                 *)
(***************************************************************************)
EXTENDS Naturals, Integers, Sequences, FiniteSets, TLC

\* ----------------------------------------------------------------- bounds
MaxDocs == 3        \* PDF files in the input folder: stems 1..MaxDocs
MaxPageCount == 2   \* pages of a document
MaxLimit == 1       \* settings.max_pages_per_pdf ranges over 0..MaxLimit
MaxRuns == 2        \* runs of convert_batch over the same folders
ResumePages == 5    \* page count of the document of the resume scenario
MaxDim == 5         \* pixmap width and height range over 1..MaxDim
PctStep == 20       \* crop percentages are the multiples of PctStep in 0..100

VARIABLES
    settings,          \* Settings: overwrite, skip_if_exists, fail_fast, max_pages_per_pdf
    input_exists,      \* settings.input_folder.exists()
    pdfs,              \* the *.pdf files of the input folder: stem -> document
    output_exists,     \* settings.output_folder exists
    files,             \* image files present in the output folder
    pc,                \* "idle", "loop", "opened", "page", "returned"
    pdf_files,         \* convert_batch: the sorted list being walked
    idx,               \* convert_batch: position of the loop in pdf_files
    batch_result,      \* convert_batch: the BatchResult
    result,            \* convert_pdf: the ConversionResult
    page_num,          \* convert_pdf: the page loop's variable
    pages_to_process,  \* convert_pdf: the page loop's limit
    open_docs,         \* documents opened and not closed
    via,               \* history: the return statement that produced result
    call_files,        \* history: files when convert_pdf was called
    handled,           \* history: page numbers the page loop has handled, in order
    opened,            \* history: documents opened in this run
    rendered,          \* history: <<stem, page_num>> rendered in this run
    writes,            \* history: paths written in this run
    log,               \* history: one record per finished run
    crop,              \* settings.crop (CropSettings)
    pix,               \* the rendered pixmap's width and height
    crop_box           \* the crop bounds (x0, y0, x1, y1) computed from them

vars == <<settings, input_exists, pdfs, output_exists, files, pc, pdf_files, idx,
          batch_result, result, page_num, pages_to_process, open_docs, via,
          call_files, handled, opened, rendered, writes, log, crop, pix, crop_box>>

batchVars == <<settings, input_exists, pdfs, output_exists, files, pc, pdf_files, idx,
               batch_result, result, page_num, pages_to_process, open_docs, via,
               call_files, handled, opened, rendered, writes, log>>

cropVars == <<crop, pix, crop_box>>

\* ------------------------------------------------------------------ texts
\* Messages are sequences of characters; None is the empty sequence.
None == <<>>

PasswordProtected ==
    <<"P","a","s","s","w","o","r","d"," ","p","r","o","t","e","c","t","e","d">>

AllPagesFailed ==
    <<"A","l","l"," ","p","a","g","e","s"," ","f","a","i","l","e","d"," ",
      "t","o"," ","r","e","n","d","e","r">>

CorruptPrefix == <<"C","o","r","r","u","p","t"," ","P","D","F",":"," ">>

\* str(e) of the exception pymupdf.open raised
ExcText == <<"c","a","n","n","o","t"," ","o","p","e","n">>

\* ------------------------------------------------------------------ input
Stems == 1..MaxDocs

\* What the renderer makes of a file: pymupdf.open raises FileDataError
\* ("corrupt") or another exception ("openfail"), or returns a document that
\* is_encrypted ("encrypted") or has page_count pages, of which those in bad
\* raise in load_page / get_pixmap / crop / save.
FailingDocs ==
    {[kind |-> k, page_count |-> 0, bad |-> {}] : k \in {"corrupt", "openfail", "encrypted"}}

ReadableDocs(counts) ==
    UNION {{[kind |-> "ok", page_count |-> n, bad |-> b] : b \in SUBSET (0..(n - 1))} :
           n \in counts}

DocShapes == FailingDocs \cup ReadableDocs(0..MaxPageCount)

\* The documents of the resume scenario: ResumePages pages, none, one or all failing.
ResumeShapes ==
    FailingDocs \cup ReadableDocs({0}) \cup
    {[kind |-> "ok", page_count |-> ResumePages, bad |-> b] :
        b \in {{}, {ResumePages - 2}, 0..(ResumePages - 1)}}

Folders(stems, shapes) == UNION {[S -> shapes] : S \in SUBSET stems}

SettingsSet ==
    [overwrite : BOOLEAN, skip_if_exists : BOOLEAN, fail_fast : BOOLEAN,
     max_pages_per_pdf : 0..MaxLimit]

\* CropSettings() with its defaults
DefaultCrop ==
    [enabled |-> FALSE, horizontal_start |-> 0, horizontal_end |-> 100,
     vertical_start |-> 0, vertical_end |-> 100]

\* BatchResult()
EmptyBatchResult ==
    [total_files |-> 0, success_count |-> 0, partial_count |-> 0, failed_count |-> 0,
     skipped_count |-> 0, results |-> <<>>]

\* ConversionResult(pdf_path=pdf_path, status="success")
NewResult(pdf_path) ==
    [pdf_path |-> pdf_path, status |-> "success", pages_total |-> 0,
     pages_converted |-> 0, pages_failed |-> 0, error_message |-> None,
     output_files |-> <<>>]

NoResult == NewResult(0)

\* Settings() with its defaults
DefaultSettings ==
    [overwrite |-> FALSE, skip_if_exists |-> TRUE, fail_fast |-> FALSE,
     max_pages_per_pdf |-> 0]

\* Nothing has run yet: the output folder does not exist.
Fresh ==
    /\ output_exists = FALSE
    /\ files = {}
    /\ pc = "idle"
    /\ pdf_files = <<>>
    /\ idx = 0
    /\ batch_result = EmptyBatchResult
    /\ result = NoResult
    /\ page_num = 0
    /\ pages_to_process = 0
    /\ open_docs = {}
    /\ via = "none"
    /\ call_files = {}
    /\ handled = <<>>
    /\ opened = {}
    /\ rendered = {}
    /\ writes = {}
    /\ log = <<>>

InitOver(stems, shapes) ==
    /\ settings \in SettingsSet
    /\ input_exists \in BOOLEAN
    /\ pdfs \in Folders(stems, shapes)
    /\ (~input_exists => pdfs = <<>>)
    /\ Fresh

NoCrop ==
    /\ crop = DefaultCrop
    /\ pix = <<0, 0>>
    /\ crop_box = <<>>

Init == InitOver(Stems, DocShapes) /\ NoCrop

InitResume == InitOver({1}, ResumeShapes) /\ NoCrop

\* ------------------------------------------------------------------- crop
Percents == {p \in 0..100 : p % PctStep = 0}

\* CropSettings.__post_init__ raises ValueError unless this holds
CropSettingsValid(c) ==
    /\ \A v \in {c.horizontal_start, c.horizontal_end, c.vertical_start, c.vertical_end} :
          0 <= v /\ v <= 100
    /\ ~(c.horizontal_start >= c.horizontal_end)
    /\ ~(c.vertical_start >= c.vertical_end)

CropSettingsSet ==
    {c \in [enabled : BOOLEAN, horizontal_start : Percents, horizontal_end : Percents,
            vertical_start : Percents, vertical_end : Percents] : CropSettingsValid(c)}

\* the division applied to the percentage before the multiplication
CropBound_percent_first(dimension, percent) == dimension * (percent \div 100)

\* int(dimension * percent / 100): the operands are not negative, so the
\* truncation is the floor
CropBound(dimension, percent) == (dimension * percent) \div 100

InitCrop ==
    /\ settings = DefaultSettings
    /\ input_exists = FALSE
    /\ pdfs = <<>>
    /\ Fresh
    /\ crop \in CropSettingsSet
    /\ pix = <<0, 0>>
    /\ crop_box = <<>>

\* page.get_pixmap: a raster of some width and height
GetPixmap ==
    /\ pix = <<0, 0>>
    /\ pix' \in (1..MaxDim) \X (1..MaxDim)
    /\ UNCHANGED <<batchVars, crop, crop_box>>

\* "Apply crop if enabled": x0, y0, x1, y1 as handed to img.crop
ComputeCrop ==
    /\ pix # <<0, 0>>
    /\ crop_box = <<>>
    /\ crop.enabled
    /\ LET width == pix[1]
           height == pix[2]
           x0 == CropBound(width, crop.horizontal_start)
           x1 == CropBound(width, crop.horizontal_end)
           y0 == CropBound(height, crop.vertical_start)
           y1 == CropBound(height, crop.vertical_end)
       IN  crop_box' = <<x0, y0, x1, y1>>
    /\ UNCHANGED <<batchVars, crop, pix>>

NextCrop == GetPixmap \/ ComputeCrop

SpecCrop == InitCrop /\ [][NextCrop]_vars

\* ------------------------------------------------------------ pure helpers
RECURSIVE Digits(_)
\* the decimal digits of n, most significant first
Digits(n) == IF n < 10 THEN <<n>> ELSE Digits(n \div 10) \o <<n % 10>>

\* f"{n:03d}": zero-padded to at least three digits
Pad3(n) ==
    LET d == Digits(n)
    IN  IF Len(d) >= 3 THEN d ELSE [i \in 1..(3 - Len(d)) |-> 0] \o d

\* The output folder and the format are those of the run's settings, so a path
\* is the stem and the formatted 1-based page number.
get_output_path(pdf_path, page_num_) ==
    [stem |-> pdf_path, num |-> Pad3(page_num_ + 1)]

\* should_skip_pdf without its check of page 1's file
should_skip_pdf_never(pdf_path) == FALSE

\* should_skip_pdf without its test of overwrite
should_skip_pdf_despite_overwrite(pdf_path) ==
    IF ~settings.skip_if_exists
    THEN FALSE
    ELSE get_output_path(pdf_path, 0) \in files

should_skip_pdf(pdf_path) ==
    IF ~settings.skip_if_exists \/ settings.overwrite
    THEN FALSE
    ELSE get_output_path(pdf_path, 0) \in files

RECURSIVE sorted(_)
\* sorted(glob("*.pdf")): the stems in increasing order
sorted(S) ==
    IF S = {} THEN <<>>
    ELSE LET m == CHOOSE x \in S : \A y \in S : x <= y
         IN  <<m>> \o sorted(S \ {m})

\* max_pages = max_pages_per_pdf if max_pages_per_pdf > 0 else len(doc);
\* pages_to_process = min(len(doc), max_pages)
PagesToProcess(len_doc) ==
    LET max_pages == IF settings.max_pages_per_pdf > 0
                     THEN settings.max_pages_per_pdf ELSE len_doc
    IN  IF len_doc <= max_pages THEN len_doc ELSE max_pages

\* "Determine final status" with the test of pages_converted dropped:
\* any failed page makes the document partial
FinalStatus_no_failed(r) ==
    IF r.pages_failed = 0 THEN [r EXCEPT !.status = "success"]
    ELSE [r EXCEPT !.status = "partial"]

\* "Determine final status" with the tests in another order: no converted
\* page is tested first
FinalStatus_converted_first(r) ==
    IF r.pages_converted = 0
    THEN [r EXCEPT !.status = "failed", !.error_message = AllPagesFailed]
    ELSE IF r.pages_failed = 0 THEN [r EXCEPT !.status = "success"]
    ELSE [r EXCEPT !.status = "partial"]

\* "Determine final status"
FinalStatus(r) ==
    IF r.pages_failed = 0 THEN [r EXCEPT !.status = "success"]
    ELSE IF r.pages_converted > 0 THEN [r EXCEPT !.status = "partial"]
    ELSE [r EXCEPT !.status = "failed", !.error_message = AllPagesFailed]

\* BatchResult.add without its case for "skipped"
Add_skipped_uncounted(br, r) ==
    [br EXCEPT
        !.results = Append(@, r),
        !.total_files = @ + 1,
        !.success_count = IF r.status = "success" THEN @ + 1 ELSE @,
        !.partial_count = IF r.status = "partial" THEN @ + 1 ELSE @,
        !.failed_count = IF r.status = "failed" THEN @ + 1 ELSE @]

\* BatchResult.add
Add(br, r) ==
    [br EXCEPT
        !.results = Append(@, r),
        !.total_files = @ + 1,
        !.success_count = IF r.status = "success" THEN @ + 1 ELSE @,
        !.partial_count = IF r.status = "partial" THEN @ + 1 ELSE @,
        !.failed_count = IF r.status = "failed" THEN @ + 1 ELSE @,
        !.skipped_count = IF r.status = "skipped" THEN @ + 1 ELSE @]

\* the fail_fast test taking a partial document for a failed one
FailFastStops_on_partial(r) == settings.fail_fast /\ r.status \in {"failed", "partial"}

\* if settings.fail_fast and result.status == "failed": break
FailFastStops(r) == settings.fail_fast /\ r.status = "failed"

\* the page loop without its check of the existing file
PageAlreadyDone_never(output_path) == FALSE

\* the check of the existing file without its test of overwrite
PageAlreadyDone_despite_overwrite(output_path) == output_path \in files

\* "if output_path.exists() and not settings.overwrite"
PageAlreadyDone(output_path) == output_path \in files /\ ~settings.overwrite

\* ------------------------------------------------------------ convert_batch
\* The document convert_pdf is working on.
Current == pdf_files[idx]

\* A run ends: convert_batch returned br ("returned"), or an exception left
\* convert_pdf and convert_batch, which main does not catch ("raised").  The
\* locals are gone; what the run did is kept in log (left_open: the documents
\* open when the run ended).
EndRun(exit, br, out) ==
    /\ pc' = "idle"
    /\ log' = Append(log, [exit |-> exit, batch |-> br, files |-> out,
                            writes |-> writes', rendered |-> rendered',
                            opened |-> opened', left_open |-> open_docs])
    /\ pdf_files' = <<>>
    /\ idx' = 0
    /\ batch_result' = EmptyBatchResult
    /\ result' = NoResult
    /\ page_num' = 0
    /\ pages_to_process' = 0
    /\ via' = "none"
    /\ call_files' = {}
    /\ handled' = <<>>

\* The exception ends the process, and with it the handles it held.
Raise ==
    /\ UNCHANGED <<settings, input_exists, pdfs, output_exists, files,
                   opened, rendered, writes, cropVars>>
    /\ open_docs' = {}
    /\ EndRun("raised", EmptyBatchResult, files)

CanStart == pc = "idle" /\ Len(log) < MaxRuns

\* convert_batch: the input folder does not exist
ConvertBatchNoInput ==
    /\ CanStart
    /\ ~input_exists
    /\ opened' = {} /\ rendered' = {} /\ writes' = {}
    /\ UNCHANGED <<settings, input_exists, pdfs, output_exists, files, open_docs, cropVars>>
    /\ EndRun("returned", EmptyBatchResult, files)

\* convert_batch: the input folder holds no PDF file
ConvertBatchNoPdfs ==
    /\ CanStart
    /\ input_exists
    /\ output_exists' = TRUE
    /\ sorted(DOMAIN pdfs) = <<>>
    /\ opened' = {} /\ rendered' = {} /\ writes' = {}
    /\ UNCHANGED <<settings, input_exists, pdfs, files, open_docs, cropVars>>
    /\ EndRun("returned", EmptyBatchResult, files)

\* convert_batch up to the first iteration of its loop
ConvertBatchBegin ==
    /\ CanStart
    /\ input_exists
    /\ output_exists' = TRUE
    /\ sorted(DOMAIN pdfs) # <<>>
    /\ pdf_files' = sorted(DOMAIN pdfs)
    /\ idx' = 1
    /\ batch_result' = EmptyBatchResult
    /\ opened' = {} /\ rendered' = {} /\ writes' = {}
    /\ pc' = "loop"
    /\ UNCHANGED <<settings, input_exists, pdfs, files, result, page_num,
                   pages_to_process, open_docs, via, call_files, handled, log, cropVars>>

\* the loop is exhausted: return batch_result
ConvertBatchReturn ==
    /\ pc = "loop"
    /\ idx > Len(pdf_files)
    /\ UNCHANGED <<settings, input_exists, pdfs, output_exists, files, open_docs,
                   opened, rendered, writes, cropVars>>
    /\ EndRun("returned", batch_result, files)

\* batch_result.add(result), and the loop goes on
BatchAddContinue ==
    /\ pc = "returned"
    /\ ~FailFastStops(result)
    /\ batch_result' = Add(batch_result, result)
    /\ idx' = idx + 1
    /\ pc' = "loop"
    /\ UNCHANGED <<settings, input_exists, pdfs, output_exists, files, pdf_files, result,
                   page_num, pages_to_process, open_docs, via, call_files, handled,
                   opened, rendered, writes, log, cropVars>>

\* batch_result.add(result), and fail_fast breaks the loop
BatchAddBreak ==
    /\ pc = "returned"
    /\ FailFastStops(result)
    /\ UNCHANGED <<settings, input_exists, pdfs, output_exists, files, open_docs,
                   opened, rendered, writes, cropVars>>
    /\ EndRun("returned", Add(batch_result, result), files)

\* -------------------------------------------------------------- convert_pdf
InCall == pc = "loop" /\ idx <= Len(pdf_files)

\* what a return statement of convert_pdf leaves
Return(r, where) ==
    /\ result' = r
    /\ via' = where
    /\ pc' = "returned"

\* should_skip_pdf says skip
ConvertPdfSkipped ==
    /\ InCall
    /\ should_skip_pdf(Current)
    /\ call_files' = files
    /\ handled' = <<>>
    /\ Return([NewResult(Current) EXCEPT !.status = "skipped"], "skipped")
    /\ UNCHANGED <<settings, input_exists, pdfs, output_exists, files, pdf_files, idx,
                   batch_result, page_num, pages_to_process, open_docs, opened, rendered,
                   writes, log, cropVars>>

\* pymupdf.open raises FileDataError
ConvertPdfCorrupt ==
    /\ InCall
    /\ ~should_skip_pdf(Current)
    /\ pdfs[Current].kind = "corrupt"
    /\ call_files' = files
    /\ handled' = <<>>
    /\ Return([NewResult(Current) EXCEPT !.status = "failed",
                                         !.error_message = CorruptPrefix \o ExcText],
              "corrupt")
    /\ UNCHANGED <<settings, input_exists, pdfs, output_exists, files, pdf_files, idx,
                   batch_result, page_num, pages_to_process, open_docs, opened, rendered,
                   writes, log, cropVars>>

\* pymupdf.open raises another exception
ConvertPdfOpenFailed ==
    /\ InCall
    /\ ~should_skip_pdf(Current)
    /\ pdfs[Current].kind = "openfail"
    /\ call_files' = files
    /\ handled' = <<>>
    /\ Return([NewResult(Current) EXCEPT !.status = "failed", !.error_message = ExcText],
              "openfail")
    /\ UNCHANGED <<settings, input_exists, pdfs, output_exists, files, pdf_files, idx,
                   batch_result, page_num, pages_to_process, open_docs, opened, rendered,
                   writes, log, cropVars>>

\* pymupdf.open returns the document
ConvertPdfOpen ==
    /\ InCall
    /\ ~should_skip_pdf(Current)
    /\ pdfs[Current].kind \in {"encrypted", "ok"}
    /\ call_files' = files
    /\ handled' = <<>>
    /\ result' = NewResult(Current)
    /\ open_docs' = open_docs \cup {Current}
    /\ opened' = opened \cup {Current}
    /\ pc' = "opened"
    /\ UNCHANGED <<settings, input_exists, pdfs, output_exists, files, pdf_files, idx,
                   batch_result, page_num, pages_to_process, via, rendered, writes, log,
                   cropVars>>

\* the encrypted branch without its doc.close()
ConvertPdfEncrypted_no_close ==
    /\ pc = "opened"
    /\ pdfs[Current].kind = "encrypted"
    /\ Return([result EXCEPT !.status = "failed", !.error_message = PasswordProtected],
              "encrypted")
    /\ UNCHANGED <<settings, input_exists, pdfs, output_exists, files, pdf_files, idx,
                   batch_result, page_num, pages_to_process, open_docs, call_files, handled,
                   opened, rendered, writes, log, cropVars>>

\* doc.is_encrypted: close and fail
ConvertPdfEncrypted ==
    /\ pc = "opened"
    /\ pdfs[Current].kind = "encrypted"
    /\ open_docs' = open_docs \ {Current}
    /\ Return([result EXCEPT !.status = "failed", !.error_message = PasswordProtected],
              "encrypted")
    /\ UNCHANGED <<settings, input_exists, pdfs, output_exists, files, pdf_files, idx,
                   batch_result, page_num, pages_to_process, call_files, handled, opened,
                   rendered, writes, log, cropVars>>

\* pages_total, the page limit, and the page loop starts
ConvertPdfEnterLoop ==
    /\ pc = "opened"
    /\ pdfs[Current].kind = "ok"
    /\ result' = [result EXCEPT !.pages_total = pdfs[Current].page_count]
    /\ pages_to_process' = PagesToProcess(pdfs[Current].page_count)
    /\ page_num' = 0
    /\ pc' = "page"
    /\ UNCHANGED <<settings, input_exists, pdfs, output_exists, files, pdf_files, idx,
                   batch_result, open_docs, via, call_files, handled, opened, rendered,
                   writes, log, cropVars>>

InPageLoop == pc = "page" /\ page_num < pages_to_process

\* the page's file exists and overwrite is off: counted, not rendered
PageSkipExisting ==
    /\ InPageLoop
    /\ PageAlreadyDone(get_output_path(Current, page_num))
    /\ result' = [result EXCEPT
                     !.pages_converted = @ + 1,
                     !.output_files = Append(@, get_output_path(Current, page_num))]
    /\ handled' = Append(handled, page_num)
    /\ page_num' = page_num + 1
    /\ UNCHANGED <<settings, input_exists, pdfs, output_exists, files, pc, pdf_files, idx,
                   batch_result, pages_to_process, open_docs, via, call_files, opened,
                   rendered, writes, log, cropVars>>

\* load_page, get_pixmap, (crop,) save: the file is written
PageConverted ==
    /\ InPageLoop
    /\ ~PageAlreadyDone(get_output_path(Current, page_num))
    /\ page_num \notin pdfs[Current].bad
    /\ rendered' = rendered \cup {<<Current, page_num>>}
    /\ files' = files \cup {get_output_path(Current, page_num)}
    /\ writes' = writes \cup {get_output_path(Current, page_num)}
    /\ result' = [result EXCEPT
                     !.pages_converted = @ + 1,
                     !.output_files = Append(@, get_output_path(Current, page_num))]
    /\ handled' = Append(handled, page_num)
    /\ page_num' = page_num + 1
    /\ UNCHANGED <<settings, input_exists, pdfs, output_exists, pc, pdf_files, idx,
                   batch_result, pages_to_process, open_docs, via, call_files, opened,
                   log, cropVars>>

\* a failed page that ends the page loop
PageFailed_stops ==
    /\ InPageLoop
    /\ ~PageAlreadyDone(get_output_path(Current, page_num))
    /\ page_num \in pdfs[Current].bad
    /\ rendered' = rendered \cup {<<Current, page_num>>}
    /\ result' = [result EXCEPT !.pages_failed = @ + 1]
    /\ handled' = Append(handled, page_num)
    /\ page_num' = pages_to_process
    /\ UNCHANGED <<settings, input_exists, pdfs, output_exists, files, pc, pdf_files, idx,
                   batch_result, pages_to_process, open_docs, via, call_files, opened,
                   writes, log, cropVars>>

\* an exception inside the try block: the page is counted as failed
PageFailed ==
    /\ InPageLoop
    /\ ~PageAlreadyDone(get_output_path(Current, page_num))
    /\ page_num \in pdfs[Current].bad
    /\ rendered' = rendered \cup {<<Current, page_num>>}
    /\ result' = [result EXCEPT !.pages_failed = @ + 1]
    /\ handled' = Append(handled, page_num)
    /\ page_num' = page_num + 1
    /\ UNCHANGED <<settings, input_exists, pdfs, output_exists, files, pc, pdf_files, idx,
                   batch_result, pages_to_process, open_docs, via, call_files, opened,
                   writes, log, cropVars>>

\* the final status without the doc.close() before it
ConvertPdfClose_keeps_open ==
    /\ pc = "page"
    /\ page_num >= pages_to_process
    /\ Return(FinalStatus(result), "loop")
    /\ UNCHANGED <<settings, input_exists, pdfs, output_exists, files, pdf_files, idx,
                   batch_result, page_num, pages_to_process, open_docs, call_files, handled,
                   opened, rendered, writes, log, cropVars>>

\* doc.close() and the final status
ConvertPdfClose ==
    /\ pc = "page"
    /\ page_num >= pages_to_process
    /\ open_docs' = open_docs \ {Current}
    /\ Return(FinalStatus(result), "loop")
    /\ UNCHANGED <<settings, input_exists, pdfs, output_exists, files, pdf_files, idx,
                   batch_result, page_num, pages_to_process, call_files, handled, opened,
                   rendered, writes, log, cropVars>>

\* Calls of convert_pdf that no try block covers.  A failure of one of them
\* leaves convert_pdf as an exception, which convert_batch and main do not
\* catch either.
\* first_page_path.exists() in should_skip_pdf
SkipCheckRaises ==
    /\ InCall
    /\ settings.skip_if_exists /\ ~settings.overwrite
    /\ Raise

\* doc.is_encrypted or len(doc)
OpenedDocRaises ==
    /\ pc = "opened"
    /\ Raise

\* output_path.exists() in the page loop
PageExistsRaises ==
    /\ InPageLoop
    /\ Raise

\* doc.close()
CloseRaises ==
    /\ pc = "page"
    /\ page_num >= pages_to_process
    /\ Raise

Next ==
    \/ ConvertBatchNoInput
    \/ ConvertBatchNoPdfs
    \/ ConvertBatchBegin
    \/ ConvertBatchReturn
    \/ BatchAddContinue
    \/ BatchAddBreak
    \/ ConvertPdfSkipped
    \/ ConvertPdfCorrupt
    \/ ConvertPdfOpenFailed
    \/ ConvertPdfOpen
    \/ ConvertPdfEncrypted
    \/ ConvertPdfEnterLoop
    \/ PageSkipExisting
    \/ PageConverted
    \/ PageFailed
    \/ ConvertPdfClose
    \/ SkipCheckRaises
    \/ OpenedDocRaises
    \/ PageExistsRaises
    \/ CloseRaises

Spec == Init /\ [][Next]_vars

SpecResume == InitResume /\ [][Next]_vars

\* ------------------------------------------------------------- properties
\* The runs that ended with convert_batch returning.
Returned(n) == n \in 1..Len(log) /\ log[n].exit = "returned"

\* The output folder as run n found it.
FilesBefore(n) == IF n = 1 THEN {} ELSE log[n - 1].files

\* The results of run n as a set, and the one for a document.
ResultsOf(n) == {log[n].batch.results[i] : i \in 1..Len(log[n].batch.results)}

\* The pages of document d whose image is in the set of paths F.
PagesIn(d, F) == {p \in 0..(pdfs[d].page_count - 1) : get_output_path(d, p) \in F}

\* Run n found exactly the images of pages 1 and 2 (indices 0 and 1) of a
\* readable document d of ResumePages pages, and no page limit is set.
ResumeCase(n, d) ==
    /\ Returned(n)
    /\ d \in DOMAIN pdfs
    /\ pdfs[d].kind = "ok"
    /\ pdfs[d].page_count = ResumePages
    /\ FilesBefore(n) = {get_output_path(d, 0), get_output_path(d, 1)}
    /\ ~settings.overwrite
    /\ settings.max_pages_per_pdf = 0

\* Pages 3..ResumePages (indices 2..) that render.
LaterGoodPages(d) == (2..(ResumePages - 1)) \ pdfs[d].bad

\* Run n re-attempted the later pages of d and completed them, and counted
\* pages 1 and 2 as converted without rendering or rewriting them.
Resumed(n, d) ==
    /\ \A p \in LaterGoodPages(d) :
          /\ get_output_path(d, p) \in log[n].files
          /\ <<d, p>> \in log[n].rendered
    /\ \A p \in {0, 1} :
          /\ <<d, p>> \notin log[n].rendered
          /\ get_output_path(d, p) \notin log[n].writes
    /\ \E r \in ResultsOf(n) :
          /\ r.pdf_path = d
          /\ r.status # "skipped"
          /\ r.pages_converted = 2 + Cardinality(LaterGoodPages(d))
          /\ Len(r.output_files) >= 2
          /\ r.output_files[1] = get_output_path(d, 0)
          /\ r.output_files[2] = get_output_path(d, 1)

C2_StatusFromCountsOnEveryPath ==
    pc = "returned" =>
        /\ (result.pages_failed = 0 => result.status = "success")
        /\ (result.pages_failed > 0 /\ result.pages_converted > 0
                => result.status = "partial")
        /\ (result.pages_converted = 0 /\ result.pages_failed > 0
                => result.status = "failed")

\* C2 amended: pages_failed = 0 implies success for the results the page
\* loop produced; a result returned before the page loop (skipped, open
\* failure, encrypted) has pages_failed = 0 and status skipped or failed.
\* The other two implications hold of every returned result.
C2_StatusFromCounts ==
    pc = "returned" =>
        /\ (via = "loop" /\ result.pages_failed = 0 => result.status = "success")
        /\ (via = "skipped" => result.pages_failed = 0 /\ result.status = "skipped")
        /\ (via \in {"corrupt", "openfail", "encrypted"}
                => result.pages_failed = 0 /\ result.status = "failed")
        /\ via \in {"loop", "skipped", "corrupt", "openfail", "encrypted"}
        /\ (result.pages_failed > 0 /\ result.pages_converted > 0
                => result.status = "partial")
        /\ (result.pages_converted = 0 /\ result.pages_failed > 0
                => result.status = "failed")

\* C2 witness: the page loop returned a result with failed and converted
\* pages, which is partial.
C2_Witness ==
    /\ pc = "returned"
    /\ via = "loop"
    /\ result.pages_failed > 0
    /\ result.pages_converted > 0
    /\ result.status = "partial"

\* Runs n - 1 and n both returned, with overwrite=false and skip_if_exists=true.
TwoRuns(n) ==
    /\ n \in 2..Len(log)
    /\ Returned(n - 1)
    /\ Returned(n)
    /\ ~settings.overwrite
    /\ settings.skip_if_exists

\* Run n rendered no page of the document of result r.
NothingRendered(n, r) == \A x \in log[n].rendered : x[1] # r.pdf_path

\* C3 as stated: the second of two runs in a row (overwrite=false,
\* skip_if_exists=true, input unchanged) leaves the set of output files of
\* the first, writes no file, and reports every document as skipped or with
\* all its pages re-confirmed as already converted (none rendered, none failed).
C3_SecondRunOnlyReconfirms ==
    \A n \in 1..Len(log) :
        TwoRuns(n) =>
            /\ log[n].files = log[n - 1].files
            /\ log[n].writes = {}
            /\ \A r \in ResultsOf(n) :
                  \/ r.status = "skipped"
                  \/ r.pages_failed = 0 /\ NothingRendered(n, r)

\* C3 amended: the second run leaves the set of output files of the first
\* and writes no file; it reports the same documents in the same order, each
\* either skipped or with the status, page counts and output list of the
\* first run; the only pages it renders are pages that failed in the first
\* run and fail again.
C3_Idempotent ==
    \A n \in 1..Len(log) :
        TwoRuns(n) =>
            /\ log[n].files = log[n - 1].files
            /\ log[n].writes = {}
            /\ Len(log[n].batch.results) = Len(log[n - 1].batch.results)
            /\ \A i \in 1..Len(log[n].batch.results) :
                  LET r1 == log[n - 1].batch.results[i]
                      r2 == log[n].batch.results[i]
                  IN  /\ r2.pdf_path = r1.pdf_path
                      /\ r2.status = "skipped" \/ r2 = r1
            /\ \A x \in log[n].rendered :
                  /\ x \in log[n - 1].rendered
                  /\ x[2] \in pdfs[x[1]].bad

\* C3 witness: the first run wrote files; the second skipped a document,
\* reported another as partial again and rendered a page that failed again.
C3_Witness ==
    \E n \in 1..Len(log) :
        /\ TwoRuns(n)
        /\ log[n - 1].writes # {}
        /\ log[n].rendered # {}
        /\ \E r \in ResultsOf(n) : r.status = "skipped"
        /\ \E r \in ResultsOf(n) : r.status = "partial"

\* The crop bounds have been computed.
Cropped == crop_box # <<>>

SortedDocs == sorted(DOMAIN pdfs)

\* The documents run n handed to convert_pdf.
Processed(n) == {log[n].batch.results[i].pdf_path : i \in 1..Len(log[n].batch.results)}

\* C5: with fail_fast=true the results of a returned run are a prefix of the
\* name-sorted document list; no result before the last is failed, and the
\* prefix is shorter than the list only if its last result is failed (so a
\* partial or skipped document never stops the batch); no document after
\* the prefix is opened, rendered or written.
C5_FailFastPrefix ==
    \A n \in 1..Len(log) :
        (Returned(n) /\ settings.fail_fast) =>
            LET rs == log[n].batch.results
            IN  /\ Len(rs) <= Len(SortedDocs)
                /\ \A i \in 1..Len(rs) : rs[i].pdf_path = SortedDocs[i]
                /\ \A i \in 1..(Len(rs) - 1) : rs[i].status # "failed"
                /\ (Len(rs) < Len(SortedDocs) => rs[Len(rs)].status = "failed")
                /\ log[n].opened \subseteq Processed(n)
                /\ \A x \in log[n].rendered : x[1] \in Processed(n)
                /\ \A f \in log[n].writes : f.stem \in Processed(n)

\* C5 witness: documents [1 (success), 2 (failed), 3 (renderable, one page)]
\* with fail_fast: the run returned exactly the results of 1 and 2, and 3 was
\* not opened and has no file.
C5_Witness ==
    \E n \in 1..Len(log) :
        /\ Returned(n)
        /\ settings.fail_fast
        /\ SortedDocs = <<1, 2, 3>>
        /\ pdfs[3] = [kind |-> "ok", page_count |-> 1, bad |-> {}]
        /\ Len(log[n].batch.results) = 2
        /\ log[n].batch.results[1].status = "success"
        /\ log[n].batch.results[2].status = "failed"
        /\ 3 \notin log[n].opened
        /\ PagesIn(3, log[n].files) = {}

\* Letters, for a comparison of texts that ignores case.
UpperCase ==
    <<"A","B","C","D","E","F","G","H","I","J","K","L","M",
      "N","O","P","Q","R","S","T","U","V","W","X","Y","Z">>

LowerCase ==
    <<"a","b","c","d","e","f","g","h","i","j","k","l","m",
      "n","o","p","q","r","s","t","u","v","w","x","y","z">>

ToLower(text) ==
    [i \in 1..Len(text) |->
        IF \E k \in 1..26 : UpperCase[k] = text[i]
        THEN LowerCase[CHOOSE k \in 1..26 : UpperCase[k] = text[i]]
        ELSE text[i]]

Contains(text, part) ==
    \E i \in 1..(Len(text) - Len(part) + 1) : SubSeq(text, i, i + Len(part) - 1) = part

Password == <<"p","a","s","s","w","o","r","d">>

\* A step that is not an exception leaving convert_pdf.
NoRaise == ~(pc # "idle" /\ pc' = "idle" /\ log'[Len(log')].exit = "raised")

C7_NoFailureEscapes ==
    \A n \in 1..Len(log) : log[n].exit # "raised"

\* The document-level skip condition, on the output folder F.
SkipCondition(d, F) ==
    /\ ~settings.overwrite
    /\ settings.skip_if_exists
    /\ get_output_path(d, 0) \in F

C9_Classification ==
    (pc = "returned" /\ via = "loop") =>
        /\ pdfs[Current].kind = "ok"
        /\ IF result.pages_failed = 0
           THEN result.status = "success" /\ result.error_message = None
           ELSE IF result.pages_converted > 0
           THEN result.status = "partial" /\ result.error_message = None
           ELSE result.status = "failed" /\ result.error_message = AllPagesFailed

\* C9 witness: a zero-page document classified as success.
C9_Witness ==
    /\ pc = "returned"
    /\ via = "loop"
    /\ pdfs[Current].page_count = 0
    /\ result.pages_converted = 0
    /\ result.pages_failed = 0
    /\ result.status = "success"

\* limit = min(page_count, max_pages_per_pdf) if max_pages_per_pdf > 0, else page_count
Limit(d) ==
    IF settings.max_pages_per_pdf > 0 /\ settings.max_pages_per_pdf < pdfs[d].page_count
    THEN settings.max_pages_per_pdf
    ELSE pdfs[d].page_count

\* <<0, 1, ..., k - 1>>
UpTo(k) == [i \in 1..k |-> i - 1]

\* The pages of d below k that this call counts as converted: the file
\* existed at the call and overwrite is off, or the page renders.
ConvertedBelow(d, k) ==
    {p \in 0..(k - 1) :
        \/ get_output_path(d, p) \in call_files /\ ~settings.overwrite
        \/ p \notin pdfs[d].bad}

\* The paths of the pages in S, in increasing page order.
PathsOf(d, S) == [i \in 1..Cardinality(S) |-> get_output_path(d, sorted(S)[i])]

\* C10: in the page loop the pages 0..limit-1 are handled once each in
\* increasing order, failed pages included; at every point
\* pages_converted + pages_failed is the number of pages handled and
\* output_files lists the converted ones in page order; on return all limit
\* pages have been handled, pages_converted + pages_failed = limit and
\* pages_total = page_count.
C10_PageAccounting ==
    /\ pc = "page" =>
          /\ pages_to_process = Limit(Current)
          /\ page_num <= pages_to_process
          /\ handled = UpTo(page_num)
          /\ result.pages_converted + result.pages_failed = page_num
          /\ result.pages_converted = Cardinality(ConvertedBelow(Current, page_num))
          /\ result.output_files = PathsOf(Current, ConvertedBelow(Current, page_num))
          /\ result.pages_total = pdfs[Current].page_count
    /\ (pc = "returned" /\ via = "loop") =>
          /\ handled = UpTo(Limit(Current))
          /\ result.pages_converted + result.pages_failed = Limit(Current)
          /\ result.pages_converted = Cardinality(ConvertedBelow(Current, Limit(Current)))
          /\ result.output_files = PathsOf(Current, ConvertedBelow(Current, Limit(Current)))
          /\ result.pages_total = pdfs[Current].page_count

\* C10 witness: the first page failed and the second was converted after it.
C10_Witness ==
    /\ pc = "returned"
    /\ via = "loop"
    /\ pdfs[Current].bad = {0}
    /\ handled = <<0, 1>>
    /\ result.pages_failed = 1
    /\ result.pages_converted = 1
    /\ result.output_files = <<get_output_path(Current, 1)>>

\* The output folder as the run in progress found it.
RunStartFiles == FilesBefore(Len(log) + 1)

\* convert_pdf is in its page loop or has returned from it.
PastPages == pc = "page" \/ (pc = "returned" /\ via = "loop")

\* The paths listed in the result's output_files.
Listed == {result.output_files[i] : i \in 1..Len(result.output_files)}

\* The page's file existed when convert_pdf was called and overwrite is off:
\* the page is in output_files, was not rendered and its file was not written.
CountedNotRendered(d, p) ==
    /\ <<d, p>> \notin rendered
    /\ get_output_path(d, p) \notin writes
    /\ get_output_path(d, p) \in Listed
    /\ get_output_path(d, p) \in files

\* With overwrite off no run writes a file that existed when the run began.
ExistingNeverRewritten ==
    ~settings.overwrite =>
        /\ (pc # "idle" => writes \cap RunStartFiles = {})
        /\ \A n \in 1..Len(log) : log[n].writes \cap FilesBefore(n) = {}

\* C11 as stated: a handled page whose file existed, with overwrite false, is
\* counted as converted and listed in output_files without render or write,
\* so that with overwrite=false no run rewrites a file that existed; with
\* overwrite true every page in range is rendered and written even if its
\* file exists.
C11_EveryPageWrittenOnOverwrite ==
    /\ PastPages =>
          \A p \in 0..(page_num - 1) :
              IF get_output_path(Current, p) \in call_files /\ ~settings.overwrite
              THEN CountedNotRendered(Current, p)
              ELSE settings.overwrite =>
                      /\ <<Current, p>> \in rendered
                      /\ get_output_path(Current, p) \in writes
    /\ ((pc = "returned" /\ via = "loop" /\ settings.overwrite) => page_num = Limit(Current))
    /\ ExistingNeverRewritten

\* C11 amended: a handled page whose file existed, with overwrite false, is
\* counted as converted and listed in output_files without render or write,
\* so that with overwrite=false no run rewrites a file that existed.  Every
\* other handled page (overwrite true, or no file yet) goes through the
\* render-and-write block even if its file exists: it is written and listed
\* when the block succeeds; when the block raises the page is counted as
\* failed, nothing is written and a file that existed stays as it was.  On
\* return from the page loop every page in range has been handled.
C11_PageLevelCheck ==
    /\ PastPages =>
          \A p \in 0..(page_num - 1) :
              IF get_output_path(Current, p) \in call_files /\ ~settings.overwrite
              THEN CountedNotRendered(Current, p)
              ELSE /\ <<Current, p>> \in rendered
                   /\ p \notin pdfs[Current].bad =>
                         /\ get_output_path(Current, p) \in writes
                         /\ get_output_path(Current, p) \in files
                         /\ get_output_path(Current, p) \in Listed
                   /\ p \in pdfs[Current].bad =>
                         /\ get_output_path(Current, p) \notin writes
                         /\ get_output_path(Current, p) \notin Listed
                         /\ (get_output_path(Current, p) \in files
                                <=> get_output_path(Current, p) \in call_files)
    /\ ((pc = "returned" /\ via = "loop") => page_num = Limit(Current))
    /\ ExistingNeverRewritten

\* C11 witness: overwrite is off, an earlier run was interrupted after it
\* wrote page 1 of a two-page document; this call counted page 1 without
\* rendering or writing it and rendered and wrote page 2.
C11_Witness ==
    /\ pc = "returned"
    /\ via = "loop"
    /\ ~settings.overwrite
    /\ get_output_path(Current, 0) \in call_files
    /\ get_output_path(Current, 1) \notin call_files
    /\ <<Current, 0>> \notin rendered
    /\ get_output_path(Current, 0) \notin writes
    /\ writes = {get_output_path(Current, 1)}
    /\ result.pages_converted = 2
    /\ result.output_files = <<get_output_path(Current, 0), get_output_path(Current, 1)>>

\* The number of results of br with status s.
CountOf(br, s) == Cardinality({i \in 1..Len(br.results) : br.results[i].status = s})

\* The counters of br agree with its results, and its results are those of
\* the first documents of the name-sorted list, one each, in that order.
Accounted(br) ==
    /\ br.total_files = Len(br.results)
    /\ br.total_files = br.success_count + br.partial_count + br.failed_count
                            + br.skipped_count
    /\ br.success_count = CountOf(br, "success")
    /\ br.partial_count = CountOf(br, "partial")
    /\ br.failed_count = CountOf(br, "failed")
    /\ br.skipped_count = CountOf(br, "skipped")
    /\ Len(br.results) <= Len(SortedDocs)
    /\ \A i \in 1..Len(br.results) : br.results[i].pdf_path = SortedDocs[i]

\* C12: at every point of convert_batch, total_files = len(results) =
\* success_count + partial_count + failed_count + skipped_count, each counter
\* is the number of results with that status, and results holds one entry
\* per document already processed, in name-sorted order (the documents
\* before the one the loop is at; all of them on return unless fail_fast
\* stopped the loop).  When the input folder is missing or holds no PDF the
\* returned BatchResult has all counters 0 and no results.
C12_BatchAccounting ==
    /\ pc # "idle" =>
          /\ Accounted(batch_result)
          /\ pdf_files = SortedDocs
          /\ Len(batch_result.results) = idx - 1
    /\ \A n \in 1..Len(log) :
          Returned(n) =>
              /\ Accounted(log[n].batch)
              /\ (~settings.fail_fast => Len(log[n].batch.results) = Len(SortedDocs))
              /\ ((~input_exists \/ DOMAIN pdfs = {}) => log[n].batch = EmptyBatchResult)

\* C12 witness: a returned run over three documents reported one skipped,
\* one partial and one failed.
C12_Witness ==
    \E n \in 1..Len(log) :
        /\ Returned(n)
        /\ log[n].batch.total_files = 3
        /\ log[n].batch.skipped_count = 1
        /\ log[n].batch.partial_count = 1
        /\ log[n].batch.failed_count = 1
        /\ log[n].batch.success_count = 0

\* C13: at most one document is open at any moment of a run, and it is the
\* one convert_pdf is working on between its open and its close; when
\* convert_pdf returns, on the encrypted path and after the page loop
\* (whatever pages failed, zero pages included), no document is open; a
\* document that was skipped or whose open failed was never opened; between
\* documents and after a run that returned no document is open.
C13_HandleDiscipline ==
    /\ Cardinality(open_docs) <= 1
    /\ (pc \in {"opened", "page"} => open_docs = {Current})
    /\ (pc \in {"idle", "loop", "returned"} => open_docs = {})
    /\ (pc = "returned" =>
          IF via \in {"encrypted", "loop"}
          THEN Current \in opened
          ELSE via \in {"skipped", "corrupt", "openfail"} /\ Current \notin opened)
    /\ \A n \in 1..Len(log) :
          /\ Cardinality(log[n].left_open) <= 1
          /\ (Returned(n) => log[n].left_open = {})
          /\ \A d \in log[n].opened : pdfs[d].kind \in {"encrypted", "ok"}

\* C13 witness: in one run an encrypted document was opened and closed, then
\* a document with a failing page was opened, looped over and closed.
C13_Witness ==
    /\ pc = "returned"
    /\ via = "loop"
    /\ idx = 2
    /\ pdfs[pdf_files[1]].kind = "encrypted"
    /\ opened = {pdf_files[1], pdf_files[2]}
    /\ result.pages_failed > 0
    /\ open_docs = {}

====
